---- MODULE Spec2Model ----
(***************************************************************************)
(* Room-state synchronisation engine of the watch-party server             *)
(* (src/watchwatch/server.js): the three room-keyed maps, the per-socket   *)
(* data and socket.io room membership, and one action per socket event     *)
(* handler.  Node runs each handler to completion, so every handler is one *)
(* atomic action.                                                          *)
(***************************************************************************)
EXTENDS Integers, Sequences, FiniteSets, TLC

\* ---- bounds of the model ----
NumConns == 2
NumRooms == 2
NumUsers == 1
MaxPos   == 1
MaxTicks == 3

\* ---- program constants ----
DebounceMs == 300

\* JavaScript's falsy payload values: a missing roomId / user / userId / type
\* is modelled by 0, a missing (undefined) time by -1, null by 0.
NoRoom == 0
NoUser == 0
Null   == 0
NoTime == 0 - 1

\* the clock advances in half debounce windows
TickMs == DebounceMs \div 2

Conns    == 1..NumConns
RoomIds  == 1..NumRooms
UserIds  == 1..NumUsers
Times    == 0..MaxPos
VideoActions == {"play", "pause", "seek", "restart", "other"}

\* the video sources a client can name in video-load: a YouTube reference
\* and a payload with no type
Youtube == 1
VideoSources ==
    { [type |-> Youtube, videoId |-> 1, videoUrl |-> Null],
      [type |-> Null,    videoId |-> 1, videoUrl |-> Null] }

VARIABLES
    rooms,            \* Map roomId -> {id}; createdAt is never read and is left out
    roomVideoStates,  \* Map roomId -> VideoState
    roomUsers,        \* Map roomId -> Map socket.id -> user (insertion ordered)
    connected,        \* which sockets are still connected
    sockData,         \* socket.data of each socket: roomId, user
    sockRooms,        \* socket.io rooms each socket has joined (socket.join)
    now,              \* Date.now()
    emitted,          \* the events the last handler emitted, one per recipient
    last,             \* the event handled last, as the server saw it
    lastAction,       \* per room: the most recent well-formed video-action
    everJoined        \* the sockets that have sent an accepted join-room

vars == << rooms, roomVideoStates, roomUsers, connected, sockData, sockRooms,
           now, emitted, last, lastAction, everJoined >>

\* ---- JavaScript Map helpers ----
Put(f, k, v) == [x \in (DOMAIN f) \cup {k} |-> IF x = k THEN v ELSE f[x]]
Del(f, k)    == [x \in (DOMAIN f) \ {k} |-> f[x]]
EmptyMap     == [x \in {} |-> 0]

\* a room's user Map is the sequence of its values in insertion order; every
\* value carries its key in socketId (line 89)
mapHas(us, c)    == \E i \in DOMAIN us : us[i].socketId = c
\* faulty variant: the entry is appended even when the key is already there
mapSetAppend(us, c, u) == Append(us, u)
mapSet(us, c, u) ==
    IF mapHas(us, c)
    THEN [i \in DOMAIN us |-> IF us[i].socketId = c THEN u ELSE us[i]]
    ELSE Append(us, u)
mapDelete(us, c) == SelectSeq(us, LAMBDA x : x.socketId # c)
mapKeys(us)      == { us[i].socketId : i \in DOMAIN us }

\* ---- initializeRoom ----
NewVideoState ==
    [ type |-> Null, videoId |-> Null, videoUrl |-> Null, currentTime |-> 0,
      isPlaying |-> FALSE, lastUpdated |-> Null, lastUpdatedBy |-> Null ]

\* faulty variant: the has() guard is missing, the room is always made anew
initializeRoomAnew(roomId) ==
    [ rooms |-> Put(rooms, roomId, [id |-> roomId]),
      roomVideoStates |-> Put(roomVideoStates, roomId, NewVideoState),
      roomUsers |-> Put(roomUsers, roomId, << >>) ]

initializeRoom(roomId) ==
    [ rooms |-> IF roomId \in DOMAIN rooms THEN rooms
                ELSE Put(rooms, roomId, [id |-> roomId]),
      roomVideoStates |->
                IF roomId \in DOMAIN roomVideoStates THEN roomVideoStates
                ELSE Put(roomVideoStates, roomId, NewVideoState),
      roomUsers |-> IF roomId \in DOMAIN roomUsers THEN roomUsers
                    ELSE Put(roomUsers, roomId, << >>) ]

\* ---- socket.io fan-out ----
\* io.to(roomId): every connected socket that joined the room
ioTo(roomId) == { d \in Conns : connected[d] /\ roomId \in sockRooms[d] }
\* faulty variant: io.to in place of socket.to, the sender is not left out
socketToAll(c, roomId) == ioTo(roomId)
\* socket.to(roomId): the same, except the sending socket
socketTo(c, roomId) == ioTo(roomId) \ {c}

Msg(to, ev, body) == [to |-> to, ev |-> ev, body |-> body]
\* faulty variant: io.emit in place of socket.emit, the error goes to everyone
ErrorToAll(c, message) == { Msg(d, "error", [message |-> message]) : d \in Conns }
\* socket.emit('error', { message })
ErrorTo(c, message) == { Msg(c, "error", [message |-> message]) }

\* the record of the event just handled: who sent it, the room and user it
\* names, its outcome ("ok", "error" or "dropped"), the video source of a
\* video-load and, once accepted, the playback command of a video-action
NoSrc == [type |-> Null, videoId |-> Null, videoUrl |-> Null]
Ev(ev, c, roomId, user, action, time, src, outcome) ==
    [ ev |-> ev, conn |-> c, roomId |-> roomId, user |-> user, action |-> action,
      time |-> time, src |-> src, outcome |-> outcome ]
Plain(ev, c, roomId, user, outcome) ==
    Ev(ev, c, roomId, user, "none", NoTime, NoSrc, outcome)

NoAction == [at |-> 0, applied |-> FALSE, live |-> FALSE]

Init ==
    /\ rooms = EmptyMap
    /\ roomVideoStates = EmptyMap
    /\ roomUsers = EmptyMap
    /\ connected = [c \in Conns |-> TRUE]
    /\ sockData = [c \in Conns |-> [roomId |-> NoRoom, user |-> NoUser]]
    /\ sockRooms = [c \in Conns |-> {}]
    /\ now = TickMs
    /\ emitted = {}
    /\ lastAction = [r \in RoomIds |-> NoAction]
    /\ everJoined = {}
    /\ last = Plain("start", 0, NoRoom, NoUser, "ok")

\* time passes between two events
Tick ==
    /\ now + TickMs <= TickMs * MaxTicks
    /\ now' = now + TickMs
    /\ emitted' = {}
    /\ last' = Plain("tick", 0, NoRoom, NoUser, "ok")
    /\ UNCHANGED << rooms, roomVideoStates, roomUsers, connected, sockData,
                    sockRooms, lastAction, everJoined >>

\* the payloads of lines 99-104 and 106-110
roomJoined(c, roomId, currentVideoState, usersInRoom) ==
    { Msg(c, "room-joined",
          [ roomId |-> roomId, userCount |-> Len(usersInRoom),
            currentVideoState |-> currentVideoState, users |-> usersInRoom ]) }

\* faulty variant: the count sent to the others leaves the joiner out
userJoinedMiscount(c, roomId, user, usersInRoom) ==
    { Msg(d, "user-joined",
          [ user |-> user, userCount |-> Len(usersInRoom) - 1,
            users |-> usersInRoom ])
      : d \in socketTo(c, roomId) }

userJoined(c, roomId, user, usersInRoom) ==
    { Msg(d, "user-joined",
          [ user |-> user, userCount |-> Len(usersInRoom), users |-> usersInRoom ])
      : d \in socketTo(c, roomId) }

\* ---- socket.on('join-room') ----
JoinRoom(c, user, roomId) ==
    /\ connected[c]
    /\ IF user = NoUser \/ roomId = NoRoom
       THEN /\ emitted' = ErrorTo(c, "Invalid join data")
            /\ last' = Plain("join-room", c, roomId, user, "error")
            /\ UNCHANGED << rooms, roomVideoStates, roomUsers, sockData, sockRooms,
                            everJoined >>
       ELSE LET init == initializeRoom(roomId)
                u    == [name |-> user, socketId |-> c]
                usersInRoom == mapSet(init.roomUsers[roomId], c, u)
                members == (sockRooms[c] \cup {roomId})
                currentVideoState == init.roomVideoStates[roomId]
            IN  /\ rooms' = init.rooms
                /\ roomVideoStates' = init.roomVideoStates
                /\ roomUsers' = [init.roomUsers EXCEPT ![roomId] = usersInRoom]
                /\ sockRooms' = [sockRooms EXCEPT ![c] = members]
                /\ sockData' = [sockData EXCEPT ![c] = [roomId |-> roomId, user |-> user]]
                /\ everJoined' = everJoined \cup {c}
                /\ last' = Plain("join-room", c, roomId, user, "ok")
                /\ emitted' =
                     roomJoined(c, roomId, currentVideoState, usersInRoom)
                       \cup userJoined(c, roomId, u, usersInRoom)
    /\ UNCHANGED << connected, now, lastAction >>

\* faulty variant: socket.to in place of io.to
loadAudienceOthers(c, roomId) == socketTo(c, roomId)

\* faulty variant: io.emit in place of io.to(roomId).emit
chatAudienceEveryone(c, roomId) == { d \in Conns : connected[d] }

\* the audiences of video-load (line 136) and chat-message (line 208)
loadAudience(c, roomId) == ioTo(roomId)
chatAudience(c, roomId) == ioTo(roomId)

\* ---- socket.on('video-load') ----
VideoLoad(c, roomId, src, userId) ==
    /\ connected[c]
    /\ IF roomId = NoRoom \/ userId = NoUser \/ src.type = Null
       THEN /\ emitted' = ErrorTo(c, "Invalid video load data")
            /\ last' = Ev("video-load", c, roomId, userId, "none", NoTime, src, "error")
            /\ UNCHANGED << rooms, roomVideoStates, roomUsers >>
       ELSE LET init == initializeRoom(roomId)
                currentState ==
                    [ type |-> src.type, videoId |-> src.videoId,
                      videoUrl |-> src.videoUrl, currentTime |-> 0,
                      isPlaying |-> FALSE, lastUpdated |-> now,
                      lastUpdatedBy |-> userId ]
            IN  /\ rooms' = init.rooms
                /\ roomUsers' = init.roomUsers
                /\ roomVideoStates' =
                       [init.roomVideoStates EXCEPT ![roomId] = currentState]
                /\ emitted' =
                     { Msg(d, "video-load",
                           [ type |-> src.type, videoId |-> src.videoId,
                             videoUrl |-> src.videoUrl, userId |-> userId,
                             timestamp |-> now ])
                       : d \in loadAudience(c, roomId) }
                /\ last' = Ev("video-load", c, roomId, userId, "none", NoTime, src, "ok")
    /\ UNCHANGED << connected, sockData, sockRooms, now, lastAction, everJoined >>

\* ---- socket.on('video-action') ----
\* time || currentState.currentTime: an undefined or zero time is falsy
orCurrent(time, currentTime) ==
    IF time = NoTime \/ time = 0 THEN currentTime ELSE time

\* faulty variant: restart takes the supplied time like play does
applyActionRestartAtTime(currentState, action, time) ==
    CASE action = "play" ->
           [currentState EXCEPT !.currentTime = orCurrent(time, @),
                                !.isPlaying = TRUE]
      [] action = "pause" ->
           [currentState EXCEPT !.currentTime = orCurrent(time, @),
                                !.isPlaying = FALSE]
      [] action = "seek" ->
           [currentState EXCEPT !.currentTime = time]
      [] action = "restart" ->
           [currentState EXCEPT !.currentTime = orCurrent(time, 0),
                                !.isPlaying = TRUE]
      [] OTHER -> currentState

\* the switch on action (lines 167-186)
applyAction(currentState, action, time) ==
    CASE action = "play" ->
           [currentState EXCEPT !.currentTime = orCurrent(time, @),
                                !.isPlaying = TRUE]
      [] action = "pause" ->
           [currentState EXCEPT !.currentTime = orCurrent(time, @),
                                !.isPlaying = FALSE]
      [] action = "seek" ->
           [currentState EXCEPT !.currentTime = time]
      [] action = "restart" ->
           [currentState EXCEPT !.currentTime = 0, !.isPlaying = TRUE]
      [] OTHER -> currentState

\* faulty variant: the comparison is turned around
debouncedInverted(currentState) ==
    /\ currentState.lastUpdated # Null
    /\ now - currentState.lastUpdated > DebounceMs

\* the debounce test of line 163 (null and 0 are falsy)
debounced(currentState) ==
    /\ currentState.lastUpdated # Null
    /\ now - currentState.lastUpdated < DebounceMs

\* faulty variant: the time of the mutation is not recorded
stampKeepsTime(currentState, userId) ==
    [currentState EXCEPT !.lastUpdatedBy = userId]

\* lines 188-189
stamp(currentState, userId) ==
    [currentState EXCEPT !.lastUpdated = now, !.lastUpdatedBy = userId]

VideoAction(c, roomId, action, time, userId) ==
    /\ connected[c]
    /\ IF roomId = NoRoom \/ userId = NoUser
       THEN /\ emitted' = ErrorTo(c, "Invalid video action data")
            /\ last' = Plain("video-action", c, roomId, userId, "error")
            /\ UNCHANGED << roomVideoStates, lastAction >>
       ELSE IF roomId \notin DOMAIN roomVideoStates
       THEN /\ emitted' = ErrorTo(c, "Room not found")
            /\ last' = Plain("video-action", c, roomId, userId, "error")
            /\ UNCHANGED << roomVideoStates, lastAction >>
       ELSE IF debounced(roomVideoStates[roomId])
       THEN /\ emitted' = {}
            /\ last' = Plain("video-action", c, roomId, userId, "dropped")
            /\ lastAction' = [lastAction EXCEPT ![roomId] =
                                [at |-> now, applied |-> FALSE, live |-> TRUE]]
            /\ UNCHANGED roomVideoStates
       ELSE /\ roomVideoStates' = [roomVideoStates EXCEPT ![roomId] =
                                     stamp(applyAction(@, action, time), userId)]
            /\ emitted' =
                 { Msg(d, "video-action",
                       [ roomId |-> roomId, action |-> action, time |-> time,
                         userId |-> userId, timestamp |-> now ])
                   : d \in socketTo(c, roomId) }
            /\ last' = Ev("video-action", c, roomId, userId, action, time, NoSrc, "ok")
            /\ lastAction' = [lastAction EXCEPT ![roomId] =
                                [at |-> now, applied |-> TRUE, live |-> TRUE]]
    /\ UNCHANGED << rooms, roomUsers, connected, sockData, sockRooms, now,
                    everJoined >>

\* ---- socket.on('chat-message') ----
ChatMessage(c, roomId, user, message) ==
    /\ connected[c]
    /\ IF roomId = NoRoom \/ user = NoUser \/ message = Null
       THEN /\ emitted' = ErrorTo(c, "Invalid chat message")
            /\ last' = Plain("chat-message", c, roomId, user, "error")
       ELSE /\ emitted' =
                 { Msg(d, "chat-message",
                       [user |-> user, message |-> message, timestamp |-> now])
                   : d \in chatAudience(c, roomId) }
            /\ last' = Plain("chat-message", c, roomId, user, "ok")
    /\ UNCHANGED << rooms, roomVideoStates, roomUsers, connected, sockData,
                    sockRooms, now, lastAction, everJoined >>

\* ---- voice chat signaling: offer, answer, ice-candidate ----
relay(c, ev, roomId) ==
    { Msg(d, ev, [payload |-> 1, from |-> c]) : d \in socketTo(c, roomId) }

Offer(c, roomId) ==
    /\ connected[c]
    /\ emitted' = relay(c, "offer", roomId)
    /\ last' = Plain("offer", c, roomId, NoUser, "ok")
    /\ UNCHANGED << rooms, roomVideoStates, roomUsers, connected, sockData,
                    sockRooms, now, lastAction, everJoined >>

Answer(c, roomId) ==
    /\ connected[c]
    /\ emitted' = relay(c, "answer", roomId)
    /\ last' = Plain("answer", c, roomId, NoUser, "ok")
    /\ UNCHANGED << rooms, roomVideoStates, roomUsers, connected, sockData,
                    sockRooms, now, lastAction, everJoined >>

IceCandidate(c, roomId) ==
    /\ connected[c]
    /\ emitted' = relay(c, "ice-candidate", roomId)
    /\ last' = Plain("ice-candidate", c, roomId, NoUser, "ok")
    /\ UNCHANGED << rooms, roomVideoStates, roomUsers, connected, sockData,
                    sockRooms, now, lastAction, everJoined >>

\* faulty variant: roomVideoStates.delete is forgotten
cleanedUpKeepsVideo(roomId) ==
    [ rooms |-> Del(rooms, roomId),
      roomVideoStates |-> roomVideoStates,
      roomUsers |-> Del(roomUsers, roomId) ]

\* ---- room teardown (lines 250-255 and 280-285) ----
cleanedUp(roomId) ==
    [ rooms |-> Del(rooms, roomId),
      roomVideoStates |-> Del(roomVideoStates, roomId),
      roomUsers |-> Del(roomUsers, roomId) ]

\* user?.name || 'Unknown' (line 245); 'Unknown' is modelled by NoUser
leaverName(users, c) ==
    IF mapHas(users, c)
    THEN (CHOOSE u \in { users[i] : i \in DOMAIN users } : u.socketId = c).name
    ELSE NoUser

userLeft(c, roomId, userName, remainingUsers) ==
    { Msg(d, "user-left",
          [ userName |-> userName, userCount |-> Len(remainingUsers),
            users |-> remainingUsers ])
      : d \in socketTo(c, roomId) }

\* faulty variant: the room is torn down only if it was empty before the removal
removeAndCleanupLate(c, roomId, userName) ==
    LET remainingUsers == mapDelete(roomUsers[roomId], c)
        gone == cleanedUp(roomId)
    IN  /\ emitted' = userLeft(c, roomId, userName, remainingUsers)
        /\ IF Len(roomUsers[roomId]) = 0
           THEN /\ rooms' = gone.rooms
                /\ roomVideoStates' = gone.roomVideoStates
                /\ roomUsers' = gone.roomUsers
                /\ lastAction' = [lastAction EXCEPT ![roomId].live = FALSE]
           ELSE /\ roomUsers' = [roomUsers EXCEPT ![roomId] = remainingUsers]
                /\ UNCHANGED << rooms, roomVideoStates, lastAction >>

\* removal, broadcast and cleanup shared by leave-room (237-256) and
\* disconnect (268-286); userName is what the handler reports
removeAndCleanup(c, roomId, userName) ==
    LET remainingUsers == mapDelete(roomUsers[roomId], c)
        gone == cleanedUp(roomId)
    IN  /\ emitted' = userLeft(c, roomId, userName, remainingUsers)
        /\ IF Len(remainingUsers) = 0
           THEN /\ rooms' = gone.rooms
                /\ roomVideoStates' = gone.roomVideoStates
                /\ roomUsers' = gone.roomUsers
                /\ lastAction' = [lastAction EXCEPT ![roomId].live = FALSE]
           ELSE /\ roomUsers' = [roomUsers EXCEPT ![roomId] = remainingUsers]
                /\ UNCHANGED << rooms, roomVideoStates, lastAction >>

\* ---- socket.on('leave-room') ----
LeaveRoom(c, userId, roomId) ==
    /\ connected[c]
    /\ IF roomId = NoRoom \/ userId = NoUser
       THEN /\ emitted' = ErrorTo(c, "Invalid leave room data")
            /\ last' = Plain("leave-room", c, roomId, userId, "error")
            /\ UNCHANGED << rooms, roomVideoStates, roomUsers, sockRooms, lastAction >>
       ELSE /\ IF roomId \in DOMAIN roomUsers
               THEN removeAndCleanup(c, roomId, leaverName(roomUsers[roomId], c))
               ELSE /\ emitted' = {}
                    /\ UNCHANGED << rooms, roomVideoStates, roomUsers, lastAction >>
            /\ sockRooms' = [sockRooms EXCEPT ![c] = @ \ {roomId}]
            /\ last' = Plain("leave-room", c, roomId, userId, "ok")
    /\ UNCHANGED << connected, sockData, now, everJoined >>

\* faulty variant: every disconnect also sweeps away all rooms without users
DisconnectSweep(c) ==
    /\ connected[c]
    /\ connected' = [connected EXCEPT ![c] = FALSE]
    /\ sockRooms' = [sockRooms EXCEPT ![c] = {}]
    /\ LET kept == { r \in DOMAIN roomUsers : Len(mapDelete(roomUsers[r], c)) > 0 }
       IN  /\ rooms' = [r \in kept |-> rooms[r]]
           /\ roomVideoStates' = [r \in kept |-> roomVideoStates[r]]
           /\ roomUsers' = [r \in kept |-> mapDelete(roomUsers[r], c)]
           /\ lastAction' = [r \in RoomIds |->
                                IF r \in kept THEN lastAction[r]
                                ELSE [lastAction[r] EXCEPT !.live = FALSE]]
    /\ emitted' = {}
    /\ last' = Plain("disconnect", c, sockData[c].roomId, sockData[c].user, "ok")
    /\ UNCHANGED << sockData, now, everJoined >>

\* ---- socket.on('disconnect') ----
\* socket.io has already taken the socket out of all its rooms
Disconnect(c) ==
    /\ connected[c]
    /\ connected' = [connected EXCEPT ![c] = FALSE]
    /\ sockRooms' = [sockRooms EXCEPT ![c] = {}]
    /\ LET roomId == sockData[c].roomId
           user   == sockData[c].user
       IN  IF roomId # NoRoom /\ user # NoUser /\ roomId \in DOMAIN roomUsers
           THEN removeAndCleanup(c, roomId, user)
           ELSE /\ emitted' = {}
                /\ UNCHANGED << rooms, roomVideoStates, roomUsers, lastAction >>
    /\ last' = Plain("disconnect", c, sockData[c].roomId, sockData[c].user, "ok")
    /\ UNCHANGED << sockData, now, everJoined >>

\* ---- the payloads clients send ----
\* the well-formed payloads over the room ids R
JoinPayloads(R)  == [user : UserIds, roomId : R]
LoadPayloads(R)  ==
    [roomId : R, src : { s \in VideoSources : s.type # Null }, userId : UserIds]
ActionPayloads(R, A, T) == [roomId : R, action : A, time : T, userId : UserIds]
ChatPayloads(R)  == [roomId : R, user : UserIds, message : {1}]
LeavePayloads(R) == [userId : UserIds, roomId : R]

\* for each required field, the payloads in which it is missing
BadJoinPayloads(R) ==
    { [user |-> NoUser, roomId |-> r] : r \in R }
      \cup { [user |-> u, roomId |-> NoRoom] : u \in UserIds }
BadLoadPayloads(R) ==
    { [roomId |-> NoRoom, src |-> s, userId |-> u] :
        s \in VideoSources, u \in UserIds }
      \cup { [roomId |-> r, src |-> s, userId |-> NoUser] :
               r \in R, s \in VideoSources }
      \cup [roomId : R, src : { s \in VideoSources : s.type = Null }, userId : UserIds]
BadActionPayloads(R, A) ==
    { [roomId |-> NoRoom, action |-> a, time |-> NoTime, userId |-> u] :
        a \in A, u \in UserIds }
      \cup { [roomId |-> r, action |-> a, time |-> NoTime, userId |-> NoUser] :
               r \in R, a \in A }
BadChatPayloads(R) ==
    { [roomId |-> NoRoom, user |-> u, message |-> 1] : u \in UserIds }
      \cup { [roomId |-> r, user |-> NoUser, message |-> 1] : r \in R }
      \cup { [roomId |-> r, user |-> u, message |-> Null] : r \in R, u \in UserIds }
BadLeavePayloads(R) ==
    { [userId |-> NoUser, roomId |-> r] : r \in R }
      \cup { [userId |-> u, roomId |-> NoRoom] : u \in UserIds }

\* one well-formed event from one connection, over the rooms R, the playback
\* actions A and the playback times T
Handle(R, A, T) ==
    \/ \E c \in Conns, p \in JoinPayloads(R) : JoinRoom(c, p.user, p.roomId)
    \/ \E c \in Conns, p \in LoadPayloads(R) :
          VideoLoad(c, p.roomId, p.src, p.userId)
    \/ \E c \in Conns, p \in ActionPayloads(R, A, T) :
          VideoAction(c, p.roomId, p.action, p.time, p.userId)
    \/ \E c \in Conns, p \in ChatPayloads(R) :
          ChatMessage(c, p.roomId, p.user, p.message)
    \/ \E c \in Conns, roomId \in R : Offer(c, roomId)
    \/ \E c \in Conns, roomId \in R : Answer(c, roomId)
    \/ \E c \in Conns, roomId \in R : IceCandidate(c, roomId)
    \/ \E c \in Conns, p \in LeavePayloads(R) : LeaveRoom(c, p.userId, p.roomId)
    \/ \E c \in Conns : Disconnect(c)

\* one malformed event from one connection
HandleBad(R, A) ==
    \/ \E c \in Conns, p \in BadJoinPayloads(R) : JoinRoom(c, p.user, p.roomId)
    \/ \E c \in Conns, p \in BadLoadPayloads(R) :
          VideoLoad(c, p.roomId, p.src, p.userId)
    \/ \E c \in Conns, p \in BadActionPayloads(R, A) :
          VideoAction(c, p.roomId, p.action, p.time, p.userId)
    \/ \E c \in Conns, p \in BadChatPayloads(R) :
          ChatMessage(c, p.roomId, p.user, p.message)
    \/ \E c \in Conns : Offer(c, NoRoom)
    \/ \E c \in Conns : Answer(c, NoRoom)
    \/ \E c \in Conns : IceCandidate(c, NoRoom)
    \/ \E c \in Conns, p \in BadLeavePayloads(R) : LeaveRoom(c, p.userId, p.roomId)

OneRoom == {1}

\* one room, with the clock, every playback command and time value, and
\* malformed payloads
Next ==
    \/ Tick
    \/ Handle(OneRoom, VideoActions, Times \cup {NoTime})
    \/ HandleBad(OneRoom, VideoActions)

Spec == Init /\ [][Next]_vars

\* every room, with well-formed payloads, one playback command and the clock
\* standing still
NextRooms == Handle(RoomIds, {"seek"}, {MaxPos})

SpecRooms == Init /\ [][NextRooms]_vars

\* ======================= properties =======================
Signals == {"offer", "answer", "ice-candidate"}

recipients(msgs) == { m.to : m \in msgs }
sizeOf(roomId)   == IF roomId \in DOMAIN roomUsers THEN Len(roomUsers[roomId]) ELSE 0
\* the connected sockets that are keys of the room's PresenceSet
joinedTo(roomId) ==
    IF roomId \in DOMAIN roomUsers
    THEN { d \in mapKeys(roomUsers[roomId]) : connected[d] }
    ELSE {}
\* a video-action with these fields gets past validation, lookup and debounce
passes(roomId, userId) ==
    /\ roomId # NoRoom
    /\ userId # NoUser
    /\ roomId \in DOMAIN roomVideoStates
    /\ \/ roomVideoStates[roomId].lastUpdated = Null
       \/ now - roomVideoStates[roomId].lastUpdated >= DebounceMs
\* the event just handled was of this kind and was accepted
accepted(ev) == last.ev = ev /\ last.outcome = "ok"

\* C1: a room whose PresenceSet is empty or absent has no Room entry and no
\* VideoState entry.
C1_CleanupInvariant ==
    \A r \in RoomIds :
        sizeOf(r) = 0 => (r \notin DOMAIN rooms /\ r \notin DOMAIN roomVideoStates)

\* C2: the three maps always have the same keys: a room id is in rooms iff it
\* is in roomVideoStates iff it is in roomUsers.
C2_MatchingExistence ==
    /\ DOMAIN rooms = DOMAIN roomVideoStates
    /\ DOMAIN rooms = DOMAIN roomUsers

\* one room holds all three structures while another room, which once took a
\* video-action, has been torn down by a leave-room or a disconnect
C2_Witness ==
    \E r, q \in RoomIds :
        /\ r \in DOMAIN rooms /\ r \in DOMAIN roomVideoStates /\ r \in DOMAIN roomUsers
        /\ q \notin DOMAIN rooms
        /\ lastAction[q].at # 0
        /\ last.ev \in {"leave-room", "disconnect"}
        /\ last.roomId = q

\* C3: a connection id is a key of at most one room's PresenceSet.
C3_OneRoomPerConnection ==
    \A c \in Conns :
        Cardinality({ r \in DOMAIN roomUsers : mapHas(roomUsers[r], c) }) <= 1

\* C4 as claimed: of two video-action events for the same existing room less
\* than 300ms apart, the second changes nothing and emits nothing, whatever
\* happened before them.
C4_SecondWithin300msIsDropped ==
    [][ ( /\ last'.ev = "video-action"
          /\ last'.outcome \in {"ok", "dropped"}
          /\ lastAction[last'.roomId].at # 0
          /\ now - lastAction[last'.roomId].at < DebounceMs )
        => (roomVideoStates' = roomVideoStates /\ emitted' = {}) ]_vars

\* C4 as amended: when the first of two well-formed video-action events for a
\* room was applied and the room's VideoState has not been deleted since, a
\* second one arriving less than 300ms after it changes nothing and emits
\* nothing, neither a broadcast nor an error.
C4_SecondAfterAppliedIsDropped ==
    [][ ( /\ last'.ev = "video-action"
          /\ last'.roomId \in DOMAIN roomVideoStates
          /\ last'.user # NoUser
          /\ lastAction[last'.roomId].live
          /\ lastAction[last'.roomId].applied
          /\ now - lastAction[last'.roomId].at < DebounceMs )
        => (roomVideoStates' = roomVideoStates /\ emitted' = {}) ]_vars

\* a VideoState that was never loaded, so that its stamp comes from an applied
\* video-action, and a later video-action inside the window, just dropped
C4_Witness ==
    /\ last.ev = "video-action"
    /\ last.outcome = "dropped"
    /\ roomVideoStates[last.roomId].type = Null
    /\ lastAction[last.roomId].at = now
    /\ now > roomVideoStates[last.roomId].lastUpdated
    /\ now - roomVideoStates[last.roomId].lastUpdated < DebounceMs
    /\ emitted = {}

\* C5 as claimed: every valid video-load and every valid chat-message is
\* delivered back to the connection that sent it, joined or not.
C5_SenderAlwaysReceives ==
    (accepted("video-load") \/ accepted("chat-message"))
      => \E m \in emitted : m.to = last.conn /\ m.ev = last.ev

\* C5 as amended: every valid video-load and every valid chat-message is
\* delivered to exactly the connections currently joined to the named room,
\* so to its sender exactly when the sender is joined to that room.
C5_RoomWideDelivery ==
    (accepted("video-load") \/ accepted("chat-message"))
      => /\ recipients(emitted) = joinedTo(last.roomId)
         /\ \A m \in emitted : m.ev = last.ev
         /\ (last.conn \in recipients(emitted)) = (last.conn \in joinedTo(last.roomId))

\* a video-load that reached both members of the room, its sender among them
C5_Witness ==
    /\ accepted("video-load")
    /\ Cardinality(joinedTo(last.roomId)) = 2
    /\ recipients(emitted) = joinedTo(last.roomId)
    /\ last.conn \in recipients(emitted)

\* C6: a video-action, offer, answer or ice-candidate is never delivered to
\* its sender; when forwarded it reaches exactly the other connections joined
\* to the named room, and signaling messages carry from = the sender's id.
C6_NeverEchoed ==
    /\ last.ev = "video-action"
         => \A m \in emitted : m.ev = "video-action" => m.to # last.conn
    /\ accepted("video-action")
         => /\ recipients(emitted) = joinedTo(last.roomId) \ {last.conn}
            /\ \A m \in emitted : m.ev = "video-action"
    /\ last.ev \in Signals
         => /\ recipients(emitted) = joinedTo(last.roomId) \ {last.conn}
            /\ \A m \in emitted : m.ev = last.ev /\ m.body.from = last.conn

\* an offer forwarded to the other member of the room
C6_Witness ==
    /\ last.ev = "offer"
    /\ last.conn \in joinedTo(last.roomId)
    /\ \E m \in emitted : m.ev = "offer" /\ m.to # last.conn /\ m.body.from = last.conn

\* C7 as claimed: every accepted join-room makes the room's membership
\* snapshot exactly one longer than it was just before the join.
C7_JoinAddsOne ==
    [][ (last'.ev = "join-room" /\ last'.outcome = "ok")
        => Len(roomUsers'[last'.roomId]) = sizeOf(last'.roomId) + 1 ]_vars

\* C7 as amended: an accepted join-room makes the room's membership snapshot
\* exactly one longer when the connection was not yet in the room's
\* PresenceSet, and leaves its length unchanged when it was.
C7_JoinAddsOneUnlessPresent ==
    [][ (last'.ev = "join-room" /\ last'.outcome = "ok")
        => Len(roomUsers'[last'.roomId]) =
             sizeOf(last'.roomId) +
               (IF /\ last'.roomId \in DOMAIN roomUsers
                   /\ mapHas(roomUsers[last'.roomId], last'.conn)
                THEN 0 ELSE 1) ]_vars

\* a join that brought the room from one member to two
C7_Witness ==
    /\ accepted("join-room")
    /\ Len(roomUsers[last.roomId]) = 2
    /\ roomUsers[last.roomId][2].socketId = last.conn

\* C8: on every accepted join-room the joiner's room-joined and the others'
\* user-joined carry the same userCount and users, userCount is the size of
\* the PresenceSet after the join, and room-joined carries the VideoState.
C8_SameSnapshot ==
    accepted("join-room")
      => \E m \in emitted :
            /\ m.to = last.conn /\ m.ev = "room-joined"
            /\ m.body.roomId = last.roomId
            /\ m.body.userCount = Len(roomUsers[last.roomId])
            /\ m.body.users = roomUsers[last.roomId]
            /\ m.body.currentVideoState = roomVideoStates[last.roomId]
            /\ \A o \in emitted \ {m} :
                  /\ o.ev = "user-joined"
                  /\ o.body.userCount = m.body.userCount
                  /\ o.body.users = m.body.users
            /\ recipients(emitted \ {m}) = joinedTo(last.roomId) \ {last.conn}

\* a join announced to the joiner and to an existing member
C8_Witness ==
    /\ accepted("join-room")
    /\ \E m, o \in emitted : m.ev = "room-joined" /\ o.ev = "user-joined"

\* C9: a restart that gets past validation, lookup and debounce is applied: it
\* sets position to 0 and playing to true whatever time is supplied, and
\* stamps lastUpdatedBy with the acting user.
C9_RestartFromZero ==
    [][ (last'.ev = "video-action" /\ passes(last'.roomId, last'.user))
        => /\ last'.outcome = "ok"
           /\ last'.action = "restart"
                => /\ roomVideoStates'[last'.roomId].currentTime = 0
                   /\ roomVideoStates'[last'.roomId].isPlaying
                   /\ roomVideoStates'[last'.roomId].lastUpdatedBy = last'.user ]_vars

\* a restart carrying a non-zero time was applied to a paused room
C9_Witness ==
    /\ accepted("video-action")
    /\ last.action = "restart"
    /\ last.time = MaxPos
    /\ roomVideoStates[last.roomId].currentTime = 0
    /\ roomVideoStates[last.roomId].isPlaying

\* C10: the disconnect of a connection that never sent an accepted join-room
\* leaves the three maps unchanged and emits nothing.
C10_DisconnectNeverJoined ==
    [][ (last'.ev = "disconnect" /\ last'.conn \notin everJoined)
        => /\ UNCHANGED << rooms, roomVideoStates, roomUsers >>
           /\ emitted' = {} ]_vars

\* a connection that never joined, but did load a video, has disconnected
\* while the room it loaded into exists
C10_Witness ==
    /\ last.ev = "disconnect"
    /\ last.conn \notin everJoined
    /\ \E r \in DOMAIN roomVideoStates : roomVideoStates[r].type # Null
    /\ emitted = {}

\* ---- rejected events ----
Validated == {"join-room", "video-load", "video-action", "chat-message", "leave-room"}

\* C11: an event with a missing room id or user, and a video-action naming a
\* room with no VideoState, is rejected; every rejected event sends exactly one
\* error to its sender and nothing to anyone else, leaves the three maps
\* unchanged, and leaves the connection open with its socket state untouched.
C11_RejectedIsSenderOnly ==
    [][ /\ ( /\ last'.ev \in Validated
             /\ \/ last'.roomId = NoRoom
                \/ last'.user = NoUser
                \/ (last'.ev = "video-action"
                      /\ last'.roomId \notin DOMAIN roomVideoStates) )
          => last'.outcome = "error"
        /\ last'.outcome = "error"
          => /\ last'.ev \in Validated
             /\ Cardinality(emitted') = 1
             /\ \A m \in emitted' : m.to = last'.conn /\ m.ev = "error"
             /\ UNCHANGED << rooms, roomVideoStates, roomUsers >>
             /\ UNCHANGED << connected, sockData, sockRooms >>
             /\ connected'[last'.conn] ]_vars

\* a member's chat-message without a message was rejected while another
\* connection is joined to the same room
C11_Witness ==
    /\ last.ev = "chat-message"
    /\ last.outcome = "error"
    /\ last.roomId # NoRoom
    /\ last.user # NoUser
    /\ last.conn \in joinedTo(last.roomId)
    /\ joinedTo(last.roomId) \ {last.conn} # {}
    /\ recipients(emitted) = {last.conn}

\* ---- leaving ----
\* the event just handled is a leave-room that passed validation or a disconnect
Leaving == {"leave-room", "disconnect"}

\* the keys left in a room's PresenceSet once connection c is taken out
leftBehind(roomId, c) == mapKeys(roomUsers[roomId]) \ {c}

\* C12: a leave-room or disconnect deletes Room, VideoState and PresenceSet of
\* the room it acts on exactly when nobody is left in the PresenceSet after
\* the removal; otherwise the room stays, its VideoState is unchanged and its
\* PresenceSet is the old one without the leaver; no other room is deleted
\* and none is created.
C12_DeletedIffEmptied ==
    [][ (last'.ev \in Leaving /\ last'.outcome = "ok")
        => /\ DOMAIN rooms' \subseteq DOMAIN rooms
           /\ \A r \in RoomIds :
                LET acted == r = last'.roomId /\ r \in DOMAIN roomUsers
                IN  IF acted /\ leftBehind(r, last'.conn) = {}
                    THEN /\ r \notin DOMAIN rooms'
                         /\ r \notin DOMAIN roomVideoStates'
                         /\ r \notin DOMAIN roomUsers'
                    ELSE /\ r \in DOMAIN rooms
                           => r \in DOMAIN rooms' /\ rooms'[r] = rooms[r]
                         /\ r \in DOMAIN roomVideoStates
                           => /\ r \in DOMAIN roomVideoStates'
                              /\ roomVideoStates'[r] = roomVideoStates[r]
                         /\ r \in DOMAIN roomUsers
                           => /\ r \in DOMAIN roomUsers'
                              /\ mapKeys(roomUsers'[r]) =
                                   IF acted THEN leftBehind(r, last'.conn)
                                   ELSE mapKeys(roomUsers[r]) ]_vars

\* a leave or disconnect has left one member behind in a room whose video was
\* set, after another room that had taken a video-action was torn down
C12_Witness ==
    /\ last.ev \in Leaving
    /\ last.roomId \in DOMAIN roomUsers
    /\ Len(roomUsers[last.roomId]) = 1
    /\ ~mapHas(roomUsers[last.roomId], last.conn)
    /\ roomVideoStates[last.roomId].lastUpdated # Null
    /\ \E m \in emitted : m.ev = "user-left"
    /\ \E q \in RoomIds : q \notin DOMAIN rooms /\ lastAction[q].at # 0

\* C13: every connection id that is a key of some room's PresenceSet belongs
\* to a connection that is still connected.
C13_PresenceIsLive ==
    \A r \in DOMAIN roomUsers : \A c \in mapKeys(roomUsers[r]) : connected[c]

\* C14: when a connection that is in a room's PresenceSet leaves that room,
\* by a leave-room naming it or by disconnecting, user-left goes to exactly
\* the other connected members of that room, and its userCount and users are
\* the size and contents of that PresenceSet without the leaver.
C14_UserLeftToRemaining ==
    [][ \A r \in DOMAIN roomUsers :
          ( /\ mapHas(roomUsers[r], last'.conn)
            /\ \/ last'.ev = "disconnect"
               \/ (last'.ev = "leave-room" /\ last'.outcome = "ok"
                     /\ last'.roomId = r) )
          => /\ recipients(emitted') = joinedTo(r) \ {last'.conn}
             /\ \A m \in emitted' :
                  /\ m.ev = "user-left"
                  /\ m.body.userCount = Len(mapDelete(roomUsers[r], last'.conn))
                  /\ m.body.users = mapDelete(roomUsers[r], last'.conn) ]_vars

\* C15: an applied play (pause) sets playing to true (false); it sets the
\* position to the supplied time whenever a time is supplied, 0 included, and
\* keeps the prior position only when no time is supplied.
C15_PlayPauseTakeSuppliedTime ==
    [][ ( /\ last'.ev = "video-action"
          /\ last'.outcome = "ok"
          /\ last'.action \in {"play", "pause"} )
        => /\ roomVideoStates'[last'.roomId].isPlaying = (last'.action = "play")
           /\ roomVideoStates'[last'.roomId].currentTime =
                IF last'.time = NoTime
                THEN roomVideoStates[last'.roomId].currentTime
                ELSE last'.time ]_vars

\* ---- debounce ----
\* the event just handled is an accepted mutation of room r: a video-load or
\* an applied video-action
mutated(r) ==
    /\ last.ev \in {"video-load", "video-action"}
    /\ last.outcome = "ok"
    /\ last.roomId = r

\* C16: lastUpdated of an existing VideoState is the time of the room's last
\* accepted mutation (it is null in a new VideoState, set to now by every
\* accepted video-load and applied video-action, and left alone by everything
\* else); a well-formed video-action for
\* an existing room arriving less than 300ms after it is dropped, leaving
\* every VideoState unchanged and emitting nothing; one arriving 300ms or
\* more after it, or before any mutation, is applied.
C16_DroppedInsideWindow ==
    [][ /\ \A r \in DOMAIN roomVideoStates' :
             IF mutated(r)'
             THEN roomVideoStates'[r].lastUpdated = now
             ELSE roomVideoStates'[r].lastUpdated =
                    IF r \in DOMAIN roomVideoStates
                    THEN roomVideoStates[r].lastUpdated ELSE Null
        /\ ( /\ last'.ev = "video-action"
             /\ last'.roomId \in DOMAIN roomVideoStates
             /\ last'.user # NoUser )
           => IF /\ roomVideoStates[last'.roomId].lastUpdated # Null
                 /\ now - roomVideoStates[last'.roomId].lastUpdated < DebounceMs
              THEN /\ last'.outcome = "dropped"
                   /\ roomVideoStates' = roomVideoStates
                   /\ emitted' = {}
              ELSE /\ last'.outcome = "ok"
                   /\ roomVideoStates'[last'.roomId].lastUpdated = now ]_vars

\* a video-action was dropped inside the window opened by a video-load, with
\* another member in the room who got nothing
C16_Witness ==
    /\ last.ev = "video-action"
    /\ last.outcome = "dropped"
    /\ roomVideoStates[last.roomId].type # Null
    /\ roomVideoStates[last.roomId].currentTime = 0
    /\ now - roomVideoStates[last.roomId].lastUpdated = TickMs
    /\ joinedTo(last.roomId) \ {last.conn} # {}
    /\ emitted = {}

\* ---- video-load ----
\* C17: a video-load with room id, user id and type is always accepted, never
\* dropped, whatever the time since the last mutation; it leaves the room with
\* all three structures, a VideoState made of the given source, position 0,
\* playing false, lastUpdated = now and lastUpdatedBy = the acting user, and
\* the PresenceSet it had before (an empty one if the room was absent).
C17_LoadReplacesState ==
    [][ last'.ev = "video-load"
        => /\ last'.outcome =
                IF /\ last'.roomId # NoRoom
                   /\ last'.user # NoUser
                   /\ last'.src.type # Null
                THEN "ok" ELSE "error"
           /\ last'.outcome = "ok"
                => /\ last'.roomId \in DOMAIN rooms'
                   /\ last'.roomId \in DOMAIN roomUsers'
                   /\ last'.roomId \in DOMAIN roomVideoStates'
                   /\ roomVideoStates'[last'.roomId] =
                        [ type |-> last'.src.type,
                          videoId |-> last'.src.videoId,
                          videoUrl |-> last'.src.videoUrl,
                          currentTime |-> 0,
                          isPlaying |-> FALSE,
                          lastUpdated |-> now,
                          lastUpdatedBy |-> last'.user ]
                   /\ roomUsers'[last'.roomId] =
                        IF last'.roomId \in DOMAIN roomUsers
                        THEN roomUsers[last'.roomId] ELSE << >> ]_vars

\* a video-load was accepted less than 300ms after an applied video-action on
\* the same room, which has a member
C17_Witness ==
    /\ accepted("video-load")
    /\ lastAction[last.roomId].live
    /\ lastAction[last.roomId].applied
    /\ now - lastAction[last.roomId].at < DebounceMs
    /\ sizeOf(last.roomId) > 0
    /\ roomVideoStates[last.roomId].lastUpdated = now
    /\ roomVideoStates[last.roomId].type = Youtube

\* ---- room isolation ----
\* the step leaves room q as it was: same existence, same Room, VideoState
\* and PresenceSet
roomUntouched(q) ==
    /\ (q \in DOMAIN rooms) = (q \in DOMAIN rooms')
    /\ (q \in DOMAIN roomVideoStates) = (q \in DOMAIN roomVideoStates')
    /\ (q \in DOMAIN roomUsers) = (q \in DOMAIN roomUsers')
    /\ q \in DOMAIN rooms => rooms'[q] = rooms[q]
    /\ q \in DOMAIN roomVideoStates => roomVideoStates'[q] = roomVideoStates[q]
    /\ q \in DOMAIN roomUsers => roomUsers'[q] = roomUsers[q]

\* the connections that are members of some room other than r and not of r
onlyElsewhere(r) ==
    { d \in Conns : /\ d \notin joinedTo(r)
                    /\ \E q \in RoomIds \ {r} : d \in joinedTo(q) }

\* the step is an event of a client naming room r (for a disconnect, the
\* room recorded on the socket)
names(r) == last'.ev \notin {"start", "tick"} /\ last'.roomId = r

\* the connections that are members only of other rooms than r, before the
\* step and after it
strangers(r) == onlyElsewhere(r) \cap onlyElsewhere(r)'

\* C18 as claimed: an event naming room r, or a disconnect of a connection
\* whose recorded room is r, leaves every other room untouched and delivers
\* nothing to any connection that is a member only of other rooms;
\* chat-message and signaling change no room state.
C18_NothingToOtherRooms ==
    [][ \A r \in RoomIds \cup {NoRoom} :
          names(r)
          => /\ \A q \in RoomIds \ {r} : roomUntouched(q)
             /\ recipients(emitted') \cap strangers(r) = {}
             /\ last'.ev \in Signals \cup {"chat-message"}
                  => UNCHANGED << rooms, roomVideoStates, roomUsers >> ]_vars

\* C18 as amended: the same, the sender's own reply aside: no connection
\* other than the sender that is a member only of other rooms is delivered
\* anything.
C18_NothingToOthersInOtherRooms ==
    [][ \A r \in RoomIds \cup {NoRoom} :
          names(r)
          => /\ \A q \in RoomIds \ {r} : roomUntouched(q)
             /\ (recipients(emitted') \ {last'.conn}) \cap strangers(r) = {}
             /\ last'.ev \in Signals \cup {"chat-message"}
                  => UNCHANGED << rooms, roomVideoStates, roomUsers >> ]_vars

\* a chat-message was delivered in its room while a connection that is a
\* member only of the other room, whose video was set, got nothing
C18_Witness ==
    /\ accepted("chat-message")
    /\ last.conn \in recipients(emitted)
    /\ \E q \in RoomIds \ {last.roomId} :
          /\ q \in DOMAIN roomVideoStates
          /\ roomVideoStates[q].lastUpdated # Null
          /\ \E d \in joinedTo(q) \ joinedTo(last.roomId) :
                d \notin recipients(emitted)

\* ---- unknown actions ----
\* C19: a video-action whose action is none of play, pause, seek, restart
\* leaves every VideoState unchanged, lastUpdated and lastUpdatedBy included,
\* and no video-action is broadcast for it.
C19_UnknownActionIgnored ==
    [][ ( /\ last'.ev = "video-action"
          /\ last'.outcome = "ok"
          /\ last'.action \notin {"play", "pause", "seek", "restart"} )
        => /\ roomVideoStates' = roomVideoStates
           /\ \A m \in emitted' : m.ev # "video-action" ]_vars

\* C20: a leave-room or disconnect that finds no entry of its sender in the
\* PresenceSet of the room it acts on (the named room, or the room recorded
\* on the socket) changes none of the three maps and emits no user-left.
C20_OnlyRealLeavesAnnounce ==
    [][ ( /\ last'.ev \in Leaving
          /\ last'.outcome = "ok"
          /\ ~ ( /\ last'.roomId \in DOMAIN roomUsers
                 /\ mapHas(roomUsers[last'.roomId], last'.conn) ) )
        => /\ UNCHANGED << rooms, roomVideoStates, roomUsers >>
           /\ \A m \in emitted' : m.ev # "user-left" ]_vars
====
